---- MODULE Spec2Model ----
(***************************************************************************)
(* Workflow gateway: the workflow executor (admission queue, bounded pool, *)
(* per-workflow driver), the state manager with its two backends and its   *)
(* event fan-out, and the failover executor over ranked providers.         *)
(*                                                                         *)
(* Granularity.  JavaScript runs one task at a time; a task gives up the   *)
(* processor only at an `await`.  Every action below is the code between   *)
(* two awaits of one task.  The in-memory state manager completes each     *)
(* method inside the call, so the await is a bare microtask hop (op        *)
(* "tick"): the continuation joins the microtask queue microQ, which is    *)
(* drained in order before any timer, I/O completion or new request runs.  *)
(* The Redis state manager sends one command per await.  All commands go   *)
(* over the single connection this.redis, which answers in request order:  *)
(* a command takes effect when it is sent and the tasks resume in the      *)
(* order in which they sent (redisQ).                                      *)
(***************************************************************************)
EXTENDS Integers, Sequences, FiniteSets, TLC

\* ---------------------------------------------------------------- bounds
\* Three families of runs.  Queue runs: several submits against a pool of
\* maxConcurrent slots, one-step definitions without skipIf, no subscriber.
\* Driver runs: one workflow of up to DriverSteps steps, each with or
\* without a skipIf, observed by subscribers.  Fifo runs: enough submits
\* to have several jobs queued at once; steps succeed or fail, no timer
\* fires.
QueueWorkflows == 2
QueueSteps == 1
DriverWorkflows == 1
DriverSteps == 2
DriverSubscribers == 1
FifoWorkflows == 3
maxConcurrent == 1

QueueScenario ==
  [wf |-> QueueWorkflows, steps |-> QueueSteps, subs |-> 0, skip |-> FALSE,
   timers |-> TRUE]
DriverScenario ==
  [wf |-> DriverWorkflows, steps |-> DriverSteps, subs |-> DriverSubscribers,
   skip |-> TRUE, timers |-> TRUE]
FifoScenario ==
  [wf |-> FifoWorkflows, steps |-> 1, subs |-> 0, skip |-> FALSE,
   timers |-> FALSE]
Scenarios == {QueueScenario, DriverScenario, FifoScenario}

MaxOf(a, b) == IF a >= b THEN a ELSE b
W == 1..MaxOf(FifoWorkflows, MaxOf(QueueWorkflows, DriverWorkflows))
Subscribers == 1..DriverSubscribers

\* ------------------------------------------------------------ error codes
Codes == {"RATE_LIMITED", "AUTH_FAILED", "MODEL_UNAVAILABLE", "TIMEOUT",
          "INVALID_REQUEST", "SERVICE_ERROR", "NETWORK_ERROR"}

\* ------------------------------------------------- workflow executor state
VARIABLES
  lim,        \* the scenario of this run: how much of the input space it draws
  backend,    \* "memory" | "redis": which state manager getStateManager built
  nextId,     \* number of ids handed out by submit
  def,        \* def[w]: the definition of w, one flag per step: has a skipIf
  store,      \* states / the workflow:<id> keys: the persisted records
  active,     \* the Redis set workflow:active
  queue,      \* WorkflowExecutor.queue
  running,    \* keys of WorkflowExecutor.running
  task,       \* task[<<kind, w>>]: where each asynchronous task of w waits
  ctxStep,    \* context.currentStep of w's execution
  results,    \* context.results of w: the step indices that hold a result
  events,     \* events[w]: the events emitEvent was called with, in order
  redisQ,     \* tasks waiting for a reply on the Redis connection, oldest first
  microQ,     \* tasks whose continuation is a queued microtask, oldest first
  subs,       \* subscribers / localSubscribers: workflow id -> callbacks
  subSt,      \* subSt[c]: 0 never subscribed, w subscribed to w, -1 released
  rcv,        \* rcv[c]: what callback c was invoked with
  launched,   \* ids in the order startExecution was called
  pushed,     \* ids in the order they were appended to the queue
  pushLen,    \* pushLen[w]: queue length right after w was appended (0: never)
  exits,      \* number of driver exits so far
  pushExits,  \* pushExits[w]: value of exits when w was appended
  timedOut,   \* timedOut[w]: the first timer of w that fired, and where
  sse         \* sse[c]: the event stream that uses callback c, if any

wfVars == <<lim, backend, nextId, def, store, active, queue, running, task, ctxStep,
            results, events, redisQ, microQ, subs, subSt, rcv, launched,
            pushed, pushLen, exits, pushExits, timedOut, sse>>

\* ------------------------------------------------- failover executor state
VARIABLES
  services,      \* BaseServiceExecutor.services: the provider names, in order
  currentIndex,  \* BaseServiceExecutor.currentIndex, shared by all calls
  call           \* call[c]: the locals of one execute call and what it did

exVars == <<services, currentIndex, call>>

\* ------------------------------------ registry and classification state
VARIABLES
  regServices,      \* ServiceRegistry.services: category -> provider list
  regCurrentIndex,  \* ServiceRegistry.currentIndex: category -> cursor
  libOut            \* the last library call and how it ended

libVars == <<regServices, regCurrentIndex, libOut>>

\* ------------------------------------------- state manager, called directly
VARIABLES
  smStates,       \* states / workflow:<id> keys of the manager under test
  smSubscribers,  \* subscribers / localSubscribers, in insertion order
  smOut,          \* the last state-manager call and how it ended
  smHandles,      \* the <<id, callback>> whose unsubscribe function exists
  smNow           \* Date.now()

smVars == <<smStates, smSubscribers, smOut, smHandles, smNow>>

vars == <<wfVars, exVars, libVars, smVars>>

\* --------------------------------------------------------------- records
NoErr == [code |-> "none", step |-> -1]
NoRes == -1
Absent == [id |-> 0, status |-> "absent", currentStep |-> 0, totalSteps |-> 0,
           steps |-> <<>>, error |-> NoErr, result |-> NoRes, done |-> FALSE]

\* WorkflowStatus as submit builds it: all steps pending, currentStep 0
NewStatus(id, d) ==
  [id |-> id, status |-> "pending", currentStep |-> 0, totalSteps |-> Len(d),
   steps |-> [i \in 1..Len(d) |->
                [index |-> i - 1, status |-> "pending", code |-> "none"]],
   error |-> NoErr, result |-> NoRes, done |-> FALSE]

\* a Partial<WorkflowStatus>: f names the fields that are present
Partial(f, v) ==
  [f |-> f, status |-> v.status, currentStep |-> v.currentStep,
   steps |-> v.steps, error |-> v.error, result |-> v.result,
   done |-> v.done]
NoPart == Partial({}, Absent)
PStatus(st) == Partial({"status"}, [Absent EXCEPT !.status = st])
PCurrentStep(i) == Partial({"currentStep"}, [Absent EXCEPT !.currentStep = i])
PSteps(ss) == Partial({"steps"}, [Absent EXCEPT !.steps = ss])
PCompleted(r) ==
  Partial({"status", "result", "done"},
          [Absent EXCEPT !.status = "completed", !.result = r, !.done = TRUE])
PFailed(code, step) ==
  Partial({"status", "error", "done"},
          [Absent EXCEPT !.status = "failed",
                         !.error = [code |-> code, step |-> step],
                         !.done = TRUE])

\* { ...current, ...updates }
Merge(cur, p) ==
  [id |-> cur.id,
   status |-> IF "status" \in p.f THEN p.status ELSE cur.status,
   currentStep |-> IF "currentStep" \in p.f THEN p.currentStep
                   ELSE cur.currentStep,
   totalSteps |-> cur.totalSteps,
   steps |-> IF "steps" \in p.f THEN p.steps ELSE cur.steps,
   error |-> IF "error" \in p.f THEN p.error ELSE cur.error,
   result |-> IF "result" \in p.f THEN p.result ELSE cur.result,
   done |-> IF "done" \in p.f THEN p.done ELSE cur.done]

Terminal == {"completed", "failed"}

\* ----------------------------------------------------------------- tasks
\* kinds: "sub" the submit call, "drv" executeWorkflow, "stp" executeSteps,
\* "pq" the emitEvent that processQueue does not await
Kinds == {"sub", "drv", "stp", "pq"}
TaskIds == Kinds \X W

NoLoc == [snap |-> Absent, part |-> NoPart, k |-> 0, code |-> "none"]
Idle == [pc |-> "idle", op |-> "none", ph |-> "none", loc |-> NoLoc]
Done == [Idle EXCEPT !.pc = "done"]

\* the model state as one record, so that the code between two awaits can
\* be written as the composition of the calls it makes
Cur ==
  [lim |-> lim, backend |-> backend, nextId |-> nextId, def |-> def, store |-> store,
   active |-> active, queue |-> queue, running |-> running, task |-> task,
   ctxStep |-> ctxStep, results |-> results, events |-> events,
   redisQ |-> redisQ, microQ |-> microQ, subs |-> subs, subSt |-> subSt, rcv |-> rcv,
   launched |-> launched, pushed |-> pushed, pushLen |-> pushLen,
   exits |-> exits, pushExits |-> pushExits, timedOut |-> timedOut,
   sse |-> sse]

Becomes(s) ==
  /\ lim' = s.lim /\ backend' = s.backend /\ nextId' = s.nextId /\ def' = s.def
  /\ store' = s.store /\ active' = s.active /\ queue' = s.queue
  /\ running' = s.running /\ task' = s.task /\ ctxStep' = s.ctxStep
  /\ results' = s.results /\ events' = s.events /\ redisQ' = s.redisQ
  /\ microQ' = s.microQ
  /\ subs' = s.subs /\ subSt' = s.subSt /\ rcv' = s.rcv
  /\ launched' = s.launched /\ pushed' = s.pushed /\ pushLen' = s.pushLen
  /\ exits' = s.exits /\ pushExits' = s.pushExits
  /\ timedOut' = s.timedOut /\ sse' = s.sse
  /\ UNCHANGED <<exVars, libVars, smVars>>


\* ------------------------------------------------------- state managers
Ev(type, step, pos, code) ==
  [type |-> type, step |-> step, pos |-> pos, code |-> code]

SetTask(s, t, pc, op, ph, loc) ==
  [s EXCEPT !.task[t] = [pc |-> pc, op |-> op, ph |-> ph, loc |-> loc]]

\* a command written to the connection: the reply is awaited
Send(s, t) == [s EXCEPT !.redisQ = Append(@, t)]

\* task t awaits a promise that is already resolved
Tick(s, t, pc, ph, loc) ==
  [SetTask(s, t, pc, "tick", ph, loc) EXCEPT !.microQ = Append(@, t)]

\* what a get of the record shows for the step an event is about
SeenStatus(s, w, ev) ==
  IF ev.step < 0 THEN "n/a"
  ELSE IF s.store[w].status = "absent" \/ ev.step + 1 > Len(s.store[w].steps)
       THEN "norecord"
       ELSE s.store[w].steps[ev.step + 1].status

\* (mutant) an emit without the try / catch around the callback: with a
\* subscriber, the error of a throwing callback ends executeSteps
notify_throws(s, w, k) ==
  [s EXCEPT !.rcv = [c \in Subscribers |->
     IF c \in s.subs[w]
     THEN Append(s.rcv[c], [w |-> w, k |-> k,
                            seen |-> SeenStatus(s, w, s.events[w][k])])
     ELSE s.rcv[c]],
            !.task[<<"stp", w>>].pc =
              IF s.subs[w] # {} THEN "thrown" ELSE @]

\* the loop over the callbacks of one workflow id in emit; a callback
\* records the event (by its emission index) and what it reads back
notify(s, w, k) ==
  [s EXCEPT !.rcv = [c \in Subscribers |->
     IF c \in s.subs[w]
     THEN Append(s.rcv[c], [w |-> w, k |-> k,
                            seen |-> SeenStatus(s, w, s.events[w][k])])
     ELSE s.rcv[c]]]

\* MemoryStateManager.update: merge if the record exists
memoryUpdate(s, w, p) ==
  IF s.store[w].status # "absent"
  THEN [s EXCEPT !.store[w] = Merge(@, p)]
  ELSE s

\* state.create(status), called by task t, which then awaits at pc
stateCreate(s, t, w, rec, pc) ==
  LET s1 == [s EXCEPT !.store[w] = rec] IN
  IF s.backend = "memory"
  THEN Tick(s1, t, pc, "none", NoLoc)
  ELSE Send(SetTask(s1, t, pc, "c_set", "none", NoLoc), t)

\* state.update(id, updates): the memory backend merges inside the call,
\* the Redis backend starts with a GET of the current value
stateUpdate(s, t, w, p, pc, ph, code) ==
  IF s.backend = "memory"
  THEN Tick(memoryUpdate(s, w, p), t, pc, ph, [NoLoc EXCEPT !.code = code])
  ELSE Send(SetTask(s, t, pc, "u_get", ph,
                    [snap |-> s.store[w], part |-> p, k |-> 0,
                     code |-> code]), t)

\* state.get(id): the memory backend hands out the stored object itself,
\* the Redis backend a parsed copy of the value at the time of the GET
stateGet(s, t, w, pc, ph, code) ==
  IF s.backend = "memory"
  THEN Tick(s, t, pc, ph, [NoLoc EXCEPT !.code = code])
  ELSE Send(SetTask(s, t, pc, "get", ph,
                    [snap |-> s.store[w], part |-> NoPart, k |-> 0,
                     code |-> code]), t)

\* emitEvent -> state.emit: the memory backend calls the callbacks inside
\* the call, the Redis backend after the PUBLISH has been answered
emitEvent(s, t, w, ev, pc, ph, code) ==
  LET s1 == [s EXCEPT !.events[w] = Append(@, ev)]
      k == Len(s1.events[w])
  IN IF s.backend = "memory"
     THEN Tick(notify(s1, w, k), t, pc, ph, [NoLoc EXCEPT !.code = code])
     ELSE Send(SetTask(s1, t, pc, "pub", ph,
                       [NoLoc EXCEPT !.k = k, !.code = code]), t)

\* the last command of a state-manager method has been sent
Final(tk) ==
  \/ tk.op \in {"tick", "get", "pub", "u_srem", "c_sadd"}
  \/ tk.op = "u_set" /\ ~(tk.loc.part.status \in Terminal)
  \/ tk.op = "u_get" /\ tk.loc.snap.status = "absent"

InSeq(x, q) == \E i \in 1..Len(q) : q[i] = x
Without(q, x) == SelectSeq(q, LAMBDA y : y # x)

\* (mutant) replies are taken in any order
Ready_anyOrder(t) ==
  /\ task[t].pc \notin {"idle", "done"}
  /\ Final(task[t])
  /\ IF task[t].op = "tick"
     THEN microQ # <<>> /\ Head(microQ) = t
     ELSE microQ = <<>> /\ InSeq(t, redisQ)

\* task t can run on: its microtask is the next one, or no microtask is
\* queued and its reply is the next one on the connection
Ready(t) ==
  /\ task[t].pc \notin {"idle", "done"}
  /\ Final(task[t])
  /\ IF task[t].op = "tick"
     THEN microQ # <<>> /\ Head(microQ) = t
     ELSE microQ = <<>> /\ redisQ # <<>> /\ Head(redisQ) = t

\* the awaited method of t returns: take the reply; the Redis emit now
\* calls the local callbacks
finish(s, t) ==
  LET tk == s.task[t]
      s1 == IF tk.op = "tick" THEN [s EXCEPT !.microQ = Tail(@)]
            ELSE [s EXCEPT !.redisQ = Without(@, t)]
  IN IF tk.op = "pub" THEN notify(s1, t[2], tk.loc.k) ELSE s1

\* RedisStateManager.create / update between two of their commands
RedisCommand(t) ==
  LET tk == task[t]  w == t[2] IN
  /\ backend = "redis" /\ microQ = <<>>
  /\ redisQ # <<>> /\ Head(redisQ) = t
  /\ ~Final(tk)
  /\ LET s0 == [Cur EXCEPT !.redisQ = Append(Tail(@), t)] IN
     Becomes(
       CASE tk.op = "u_get" ->
              [s0 EXCEPT !.store[w] = Merge(tk.loc.snap, tk.loc.part),
                         !.task[t].op = "u_set"]
         [] tk.op = "u_set" -> [s0 EXCEPT !.task[t].op = "u_expire"]
         [] tk.op = "u_expire" ->
              [s0 EXCEPT !.active = @ \ {w}, !.task[t].op = "u_srem"]
         [] tk.op = "c_set" -> [s0 EXCEPT !.task[t].op = "c_expire"]
         [] tk.op = "c_expire" ->
              [s0 EXCEPT !.active = @ \cup {w}, !.task[t].op = "c_sadd"])


\* ------------------------------------------------------ WorkflowExecutor
T(kind, w) == <<kind, w>>

\* the definitions of a scenario: 1..steps steps, each with or without a
\* skipIf (without, where the scenario draws none)
Definitions(l) ==
  UNION {[1..n -> IF l.skip THEN BOOLEAN ELSE {FALSE}] : n \in 1..l.steps}
AllDefinitions == UNION {Definitions(l) : l \in Scenarios}

\* what executeStep can reject with: an AIServiceError of the failover
\* executor (the driver only copies its code, one code stands for all) or
\* a plain Error of a transformer or of streamToString (code undefined)
StepErrCodes == {"AUTH_FAILED", "undef"}

StartedEv == Ev("workflow:started", -1, -1, "none")

\* (mutant) the trailing emit is lost
lastEmit_lost(s, t, w, ev, pc) ==
  LET s1 == emitEvent(s, t, w, ev, pc, "none", "none") IN
  IF s.backend = "memory"
  THEN [s1 EXCEPT !.task[t] = Done, !.microQ = s.microQ,
                  !.events = s.events, !.rcv = s.rcv]
  ELSE [s1 EXCEPT !.events[w] = Append(s.events[w],
                                       Ev("lost", -1, -1, "none"))]

\* emitEvent as the last statement of a task: nothing runs after the await
\* but, for Redis, the callbacks of emit
lastEmit(s, t, w, ev, pc) ==
  LET s1 == emitEvent(s, t, w, ev, pc, "none", "none") IN
  IF s.backend = "memory"
  THEN [s1 EXCEPT !.task[t] = Done, !.microQ = s.microQ]
  ELSE s1

\* startExecution: executeWorkflow runs up to its first await (the update
\* to running), then running.set
startExecution(s, w) ==
  LET s1 == stateUpdate(s, T("drv", w), w, PStatus("running"), "run",
                        "none", "none")
  IN [s1 EXCEPT !.running = @ \cup {w}, !.launched = Append(@, w)]

\* (mutant) one slot too many
HasCapacity_offByOne(s) == Cardinality(s.running) <= maxConcurrent

\* this.running.size < this.config.maxConcurrent
HasCapacity(s) == Cardinality(s.running) < maxConcurrent

\* (mutant) the newest job is taken
queueShift_pop(q) == [job |-> q[Len(q)], rest |-> SubSeq(q, 1, Len(q) - 1)]

\* this.queue.shift()
queueShift(q) == [job |-> Head(q), rest |-> Tail(q)]

RECURSIVE processQueue(_)
processQueue(s) ==
  IF Len(s.queue) > 0 /\ HasCapacity(s)
  THEN LET w == queueShift(s.queue).job
           s1 == startExecution(
                   [s EXCEPT !.queue = queueShift(s.queue).rest], w)
       IN processQueue(lastEmit(s1, T("pq", w), w, StartedEv, "pq_emit"))
  ELSE s

\* a setTimeout callback of w runs: which timer, the step that was current
\* and the persisted status of that step; kept for the first timer only
NoTimer == [kind |-> "none", step |-> -1, status |-> "none"]
fire(s, w, kind) ==
  IF s.timedOut[w].kind # "none" THEN s
  ELSE [s EXCEPT !.timedOut[w] =
          [kind |-> kind, step |-> s.ctxStep[w],
           status |-> s.store[w].steps[s.ctxStep[w] + 1].status]]

\* (mutant) a race that hands every settled promise to executeWorkflow,
\* not only the first one
settle_every(s, w, outcome, code) ==
  IF s.task[T("drv", w)].pc # "idle"
  THEN Tick(s, T("drv", w), "race", outcome, [NoLoc EXCEPT !.code = code])
  ELSE s

\* Promise.race of executeWorkflow gets its first settled promise
settle(s, w, outcome, code) ==
  IF s.task[T("drv", w)].pc = "race" /\ s.task[T("drv", w)].op = "none"
  THEN Tick(s, T("drv", w), "race", outcome, [NoLoc EXCEPT !.code = code])
  ELSE s

\* the body of the for loop up to its first await, for a step without skip
beginStep(s, w, i) ==
  stateUpdate(s, T("stp", w), w, PCurrentStep(i), "cs", "running", "none")

\* the head of the for loop of executeSteps with index i
executeStepsIter(s, w, i) ==
  IF i >= Len(s.def[w])
  THEN settle(SetTask(s, T("stp", w), "returned", "none", "none", NoLoc),
              w, "ok", "none")
  ELSE LET s1 == [s EXCEPT !.ctxStep[w] = i] IN
       IF s.def[w][i + 1]
       THEN SetTask(s1, T("stp", w), "skipIf", "io", "none", NoLoc)
       ELSE beginStep(s1, w, i)

\* { ...status.steps[stepIndex], ...updates } for the four step writes
\* (mutant) a step write that replaces the element instead of spreading it
stepMerge_replace(st, ph, code) ==
  [index |-> 0, status |-> ph,
   code |-> IF ph = "failed" THEN code ELSE st.code]

stepMerge(st, ph, code) ==
  [st EXCEPT !.status = ph, !.code = IF ph = "failed" THEN code ELSE @]

StepEventType(ph) ==
  CASE ph = "skipped" -> "step:skipped"
    [] ph = "running" -> "step:started"
    [] ph = "completed" -> "step:complete"
    [] ph = "failed" -> "step:failed"

\* ---- submit
submit(w, d) ==
  /\ microQ = <<>>
  /\ nextId < lim.wf /\ w = nextId + 1
  /\ d \in Definitions(lim)
  /\ Becomes(stateCreate([Cur EXCEPT !.nextId = w, !.def[w] = d],
                         T("sub", w), w, NewStatus(w, d), "create"))

\* submit after `await this.state.create(status)`
submitAdmit(w) ==
  LET t == T("sub", w) IN
  /\ task[t].pc = "create" /\ Ready(t)
  /\ LET s0 == finish(Cur, t) IN
     IF HasCapacity(s0)
     THEN Becomes(lastEmit(startExecution(s0, w), t, w, StartedEv, "s_emit"))
     ELSE Becomes(stateUpdate(
            [s0 EXCEPT !.queue = Append(@, w), !.pushed = Append(@, w),
                       !.pushLen[w] = Len(s0.queue) + 1,
                       !.pushExits[w] = s0.exits],
            t, w, PStatus("queued"), "q_upd", "none", "none"))

\* submit after `await this.state.update(id, { status: 'queued' })`
submitQueued(w) ==
  LET t == T("sub", w) IN
  /\ task[t].pc = "q_upd" /\ Ready(t)
  /\ LET s0 == finish(Cur, t) IN
     Becomes(lastEmit(s0, t, w,
                      Ev("workflow:queued", -1, Len(s0.queue), "none"),
                      "q_emit"))

\* submit after its awaited emitEvent: return id
submitReturn(w) ==
  LET t == T("sub", w) IN
  /\ task[t].pc \in {"s_emit", "q_emit"} /\ Ready(t)
  /\ Becomes([finish(Cur, t) EXCEPT !.task[t] = Done])

\* the emitEvent of processQueue completes
processQueueEmitted(w) ==
  LET t == T("pq", w) IN
  /\ task[t].pc = "pq_emit" /\ Ready(t)
  /\ Becomes([finish(Cur, t) EXCEPT !.task[t] = Done])

\* ---- executeWorkflow
\* after the update to running: context, total timer, executeSteps called
executeWorkflowStart(w) ==
  LET t == T("drv", w) IN
  /\ task[t].pc = "run" /\ Ready(t)
  /\ LET s0 == finish(Cur, t)
         s1 == [SetTask(s0, t, "race", "none", "none", NoLoc)
                  EXCEPT !.ctxStep[w] = 0, !.results[w] = {}]
     IN Becomes(executeStepsIter(s1, w, 0))

\* (mutant) a total timer whose rejection is not part of the race
totalTimeout_unraced(w) ==
  /\ lim.timers
  /\ task[T("drv", w)].pc = "race" /\ task[T("drv", w)].op = "none"
  /\ microQ = <<>>
  /\ Becomes(fire(Cur, w, "total"))

\* the total-timeout promise rejects with a plain Error
totalTimeout(w) ==
  /\ lim.timers
  /\ task[T("drv", w)].pc = "race" /\ task[T("drv", w)].op = "none"
  /\ microQ = <<>>
  /\ Becomes(settle(fire(Cur, w, "total"), w, "err", "undef"))

\* after `await Promise.race(...)`: the try body or the catch block, up to
\* the state.update
executeWorkflowSettled(w) ==
  LET t == T("drv", w)  tk == task[t] IN
  /\ tk.pc = "race" /\ Ready(t)
  /\ LET s0 == finish(Cur, t)
         last == Len(s0.def[w]) - 1
         r == IF last \in s0.results[w] THEN last ELSE NoRes
     IN IF tk.ph = "ok"
        THEN Becomes(stateUpdate(s0, t, w, PCompleted(r), "ok_upd", "ok",
                                 "none"))
        ELSE Becomes(stateUpdate(s0, t, w,
                                 PFailed(tk.loc.code, s0.ctxStep[w]),
                                 "err_upd", "err", tk.loc.code))

\* emit workflow:complete{result} / workflow:failed{error}; pos carries the
\* result, resp. error.step
executeWorkflowEmit(w) ==
  LET t == T("drv", w)  tk == task[t] IN
  /\ tk.pc \in {"ok_upd", "err_upd"} /\ Ready(t)
  /\ LET s0 == finish(Cur, t)
         last == Len(s0.def[w]) - 1
         r == IF last \in s0.results[w] THEN last ELSE NoRes
     IN IF tk.pc = "ok_upd"
        THEN Becomes(emitEvent(s0, t, w,
                               Ev("workflow:complete", -1, r, "none"),
                               "ok_emit", "ok", "none"))
        ELSE Becomes(emitEvent(s0, t, w,
                               Ev("workflow:failed", -1, s0.ctxStep[w],
                                  tk.loc.code),
                               "err_emit", "err", tk.loc.code))

\* executeWorkflow returns; finally: running.delete and processQueue
executeWorkflowExit(w) ==
  LET t == T("drv", w) IN
  /\ task[t].pc \in {"ok_emit", "err_emit"} /\ Ready(t)
  /\ LET s0 == finish(Cur, t) IN
     Becomes(processQueue([s0 EXCEPT !.task[t] = Done,
                                     !.running = @ \ {w},
                                     !.exits = @ + 1]))

\* ---- executeSteps
\* `await stepConfig.skipIf(context)` yields b
skipIfResult(w, b) ==
  LET t == T("stp", w) IN
  /\ task[t].pc = "skipIf" /\ microQ = <<>>
  /\ IF b
     THEN Becomes(stateGet(Cur, t, w, "us_get", "skipped", "none"))
     ELSE Becomes(beginStep(Cur, w, ctxStep[w]))

\* after `await this.state.update(id, { currentStep: i })`
stepsAfterCurrentStep(w) ==
  LET t == T("stp", w) IN
  /\ task[t].pc = "cs" /\ Ready(t)
  /\ Becomes(stateGet(finish(Cur, t), t, w, "us_get", "running", "none"))

\* updateStepStatus after its state.get: replace steps[i], call update
updateStepStatus(w) ==
  LET t == T("stp", w)  tk == task[t] IN
  /\ tk.pc = "us_get" /\ Ready(t)
  /\ LET s0 == finish(Cur, t)
         i == s0.ctxStep[w]
         status == IF backend = "memory" THEN s0.store[w] ELSE tk.loc.snap
     IN IF status.status # "absent" /\ i + 1 <= Len(status.steps)
        THEN Becomes(stateUpdate(s0, t, w,
               PSteps([status.steps EXCEPT
                         ![i + 1] = stepMerge(@, tk.ph, tk.loc.code)]),
               "us_upd", tk.ph, tk.loc.code))
        ELSE Becomes(Tick(s0, t, "us_upd", tk.ph,
                          [NoLoc EXCEPT !.code = tk.loc.code]))

\* after `await this.updateStepStatus(...)`: emit the step event
stepsEmit(w) ==
  LET t == T("stp", w)  tk == task[t] IN
  /\ tk.pc = "us_upd" /\ Ready(t)
  /\ LET s0 == finish(Cur, t) IN
     Becomes(emitEvent(s0, t, w,
                       Ev(StepEventType(tk.ph), s0.ctxStep[w], -1,
                          tk.loc.code),
                       "us_emit", tk.ph, tk.loc.code))

\* after the awaited step event: continue, start the step, or re-throw
stepsAfterEmit(w) ==
  LET t == T("stp", w)  tk == task[t] IN
  /\ tk.pc = "us_emit" /\ Ready(t)
  /\ LET s0 == finish(Cur, t)  i == s0.ctxStep[w] IN
     CASE tk.ph \in {"skipped", "completed"} ->
            Becomes(executeStepsIter(s0, w, i + 1))
       [] tk.ph = "running" ->
            Becomes(SetTask(s0, t, "step", "io", "none", NoLoc))
       [] tk.ph = "failed" ->
            Becomes(settle(SetTask(s0, t, "thrown", "none", "none", NoLoc),
                           w, "err", tk.loc.code))

\* the message of the Error the previous* transformers throw; it has no code
NoPreviousResult == "no_previous_result"

\* context.previousResult(): undefined for step 0, else
\* results.get(currentStep - 1), a result named here by its step index
previousResult(s, w) ==
  IF s.ctxStep[w] = 0 THEN NoRes
  ELSE IF s.ctxStep[w] - 1 \in s.results[w] THEN s.ctxStep[w] - 1
       ELSE NoRes

\* after the awaited step:started event, for a step whose input is
\* previousTextToImageInput / previousTextToAudioInput /
\* previousImageToVisionInput: executeStep calls the transformer before its
\* first await; without a previous result it throws and the catch block
\* runs, else the provider is called with the input built from that result
\* (loc.k: the step index of the result the input was built from, plus 1)
previousTextToImageInput(w) ==
  LET t == T("stp", w)  tk == task[t] IN
  /\ tk.pc = "us_emit" /\ Ready(t)
  /\ tk.ph = "running"
  /\ LET s0 == finish(Cur, t)  r == previousResult(s0, w) IN
     IF r = NoRes
     THEN Becomes(stateGet(s0, t, w, "us_get", "failed", NoPreviousResult))
     ELSE Becomes(SetTask(s0, t, "step", "io", "none",
                          [NoLoc EXCEPT !.k = r + 1]))

\* executeStep resolves before the step timer: store the result, state.get
stepOk(w) ==
  LET t == T("stp", w) IN
  /\ task[t].pc = "step" /\ microQ = <<>>
  /\ Becomes(stateGet([Cur EXCEPT !.results[w] = @ \cup {ctxStep[w]}],
                      t, w, "g0", "completed", "none"))

\* after `const stepStatus = await this.state.get(id)`
stepsAfterGet(w) ==
  LET t == T("stp", w) IN
  /\ task[t].pc = "g0" /\ Ready(t)
  /\ Becomes(stateGet(finish(Cur, t), t, w, "us_get", "completed", "none"))

\* executeStep rejects with code c: the catch block
stepFail(w, c) ==
  LET t == T("stp", w) IN
  /\ task[t].pc = "step" /\ microQ = <<>>
  /\ Becomes(stateGet(Cur, t, w, "us_get", "failed", c))

\* the step timer rejects first, with a plain Error
stepTimeout(w) ==
  LET t == T("stp", w) IN
  /\ lim.timers
  /\ task[t].pc = "step" /\ microQ = <<>>
  /\ Becomes(stateGet(fire(Cur, w, "step"), t, w, "us_get", "failed",
                      "undef"))

\* ---- subscribers
NoStream == [pc |-> "none", w |-> 0, snap |-> "none"]

\* the command of stream c on the connection
StreamRead(c) == <<"sse", c>>

\* handleWorkflowStream after getStatus resolved with a record of status
\* snap: close at once on a terminal status, else subscribe
streamStatus(s, c, w, snap) ==
  IF snap \in Terminal \/ snap = "absent"
  THEN [s EXCEPT !.sse[c] = [pc |-> "closed", w |-> w, snap |-> snap]]
  ELSE [s EXCEPT !.sse[c] = [pc |-> "open", w |-> w, snap |-> snap],
                 !.subs[w] = @ \cup {c}, !.subSt[c] = w]

\* a client opens the event stream of workflow w: getStatus is called; the
\* memory backend resolves it before any other task can run
streamOpen(c, w) ==
  /\ microQ = <<>>
  /\ c <= lim.subs
  /\ subSt[c] = 0 /\ sse[c] = NoStream /\ w <= nextId
  /\ IF backend = "memory"
     THEN Becomes(streamStatus(Cur, c, w, store[w].status))
     ELSE Becomes([Cur EXCEPT
            !.sse[c] = [pc |-> "reading", w |-> w, snap |-> store[w].status],
            !.redisQ = Append(@, StreamRead(c))])

\* the GET of getStatus is answered
streamGot(c) ==
  /\ sse[c].pc = "reading"
  /\ microQ = <<>> /\ redisQ # <<>> /\ Head(redisQ) = StreamRead(c)
  /\ Becomes(streamStatus([Cur EXCEPT !.redisQ = Tail(@)], c, sse[c].w,
                          sse[c].snap))

\* the timer set by the callback on workflow:complete or workflow:failed
\* fires: unsubscribe and close
streamClose(c) ==
  /\ sse[c].pc = "open" /\ microQ = <<>>
  /\ \E j \in 1..Len(rcv[c]) :
       /\ rcv[c][j].w = sse[c].w
       /\ events[rcv[c][j].w][rcv[c][j].k].type
            \in {"workflow:complete", "workflow:failed"}
  /\ Becomes([Cur EXCEPT !.sse[c].pc = "closed",
                         !.subs[sse[c].w] = @ \ {c}, !.subSt[c] = -1])

subscribe(c, w) ==
  /\ microQ = <<>>
  /\ c <= lim.subs
  /\ subSt[c] = 0 /\ w <= nextId /\ sse[c] = NoStream
  /\ subs' = [subs EXCEPT ![w] = @ \cup {c}]
  /\ subSt' = [subSt EXCEPT ![c] = w]
  /\ UNCHANGED <<lim, backend, nextId, def, store, active, queue, running, task,
                 ctxStep, results, events, redisQ, microQ, rcv, launched, pushed,
                 pushLen, exits, pushExits, timedOut, sse, exVars, libVars,
                 smVars>>

\* the function subscribe returned
unsubscribe(c) ==
  /\ microQ = <<>>
  /\ subSt[c] \in W /\ sse[c] = NoStream
  /\ subs' = [subs EXCEPT ![subSt[c]] = @ \ {c}]
  /\ subSt' = [subSt EXCEPT ![c] = -1]
  /\ UNCHANGED <<lim, backend, nextId, def, store, active, queue, running, task,
                 ctxStep, results, events, redisQ, microQ, rcv, launched, pushed,
                 pushLen, exits, pushExits, timedOut, sse, exVars, libVars,
                 smVars>>

\* the workflow executor right after construction, in scenario l with
\* state backend b
WfInit(l, b) ==
  /\ lim = l
  /\ backend = b
  /\ nextId = 0
  /\ def = [w \in W |-> <<>>]
  /\ store = [w \in W |-> Absent]
  /\ active = {}
  /\ queue = <<>>
  /\ running = {}
  /\ task = [t \in TaskIds |-> Idle]
  /\ ctxStep = [w \in W |-> 0]
  /\ results = [w \in W |-> {}]
  /\ events = [w \in W |-> <<>>]
  /\ redisQ = <<>>
  /\ microQ = <<>>
  /\ subs = [w \in W |-> {}]
  /\ subSt = [c \in Subscribers |-> 0]
  /\ rcv = [c \in Subscribers |-> <<>>]
  /\ launched = <<>>
  /\ pushed = <<>>
  /\ pushLen = [w \in W |-> 0]
  /\ exits = 0
  /\ pushExits = [w \in W |-> 0]
  /\ timedOut = [w \in W |-> NoTimer]
  /\ sse = [c \in Subscribers |-> NoStream]

\* ------------------------------------------------------ failover executor
MaxProviders == 3
MaxCalls == 2
maxRetries == 3
baseDelayMs == 500
maxDelayMs == 5000

Calls == 1..MaxCalls

\* an error message, as the set of the keywords lowerMessage.includes finds
Keywords == {"rate", "429", "auth", "401", "api key", "model", "not found",
             "timeout", "timed out", "invalid", "400", "network", "fetch",
             "econnrefused"}
Messages ==
  {{k} : k \in Keywords} \cup {{}, {"invalid", "api key"}, {"model", "rate"}}

classifyError(m) ==
  IF "rate" \in m \/ "429" \in m THEN "RATE_LIMITED"
  ELSE IF "auth" \in m \/ "401" \in m \/ "api key" \in m THEN "AUTH_FAILED"
  ELSE IF "model" \in m \/ "not found" \in m THEN "MODEL_UNAVAILABLE"
  ELSE IF "timeout" \in m \/ "timed out" \in m THEN "TIMEOUT"
  ELSE IF "invalid" \in m \/ "400" \in m THEN "INVALID_REQUEST"
  ELSE IF "network" \in m \/ "fetch" \in m \/ "econnrefused" \in m
       THEN "NETWORK_ERROR"
  ELSE "SERVICE_ERROR"

\* (mutant) every code triggers the fallback
isRetryable_all(code) == code \in Codes

isRetryable(code) ==
  code \in {"RATE_LIMITED", "TIMEOUT", "SERVICE_ERROR", "NETWORK_ERROR",
            "MODEL_UNAVAILABLE"}

RECURSIVE Pow2(_)
Pow2(n) == IF n <= 0 THEN 1 ELSE 2 * Pow2(n - 1)
Min(a, b) == IF a <= b THEN a ELSE b

\* the duration of delay(attempt)
delay(attempt) == Min(baseDelayMs * Pow2(attempt), maxDelayMs)

\* service.name of the i-th registered provider
name(i) == "svc" \o ToString(i)

\* names.join(', ')
RECURSIVE join(_)
join(names) ==
  IF names = <<>> THEN ""
  ELSE IF Len(names) = 1 THEN names[1]
  ELSE names[1] \o ", " \o join(Tail(names))

\* (mutant) the names of the errors, last error first
serviceNames_reversed(errors) ==
  [j \in 1..Len(errors) |-> name(errors[Len(errors) + 1 - j].service)]

\* errors.map(e => e.serviceName)
serviceNames(errors) == [j \in 1..Len(errors) |-> name(errors[j].service)]

NoOut == [kind |-> "none", service |-> "", code |-> "none", cause |-> <<>>]
NewCall ==
  [pc |-> "idle", attempt |-> 0, attempted |-> {}, errors |-> <<>>,
   invoked |-> <<>>, sleeps |-> <<>>, svc |-> 0, out |-> NoOut]

ExCur == [services |-> services, currentIndex |-> currentIndex, call |-> call]
ExBecomes(e) ==
  /\ services' = e.services /\ currentIndex' = e.currentIndex
  /\ call' = e.call
  /\ UNCHANGED <<wfVars, libVars, smVars>>

\* (mutant) the loop head without the skip of attempted providers
RECURSIVE loopHead_noSkip(_, _)
loopHead_noSkip(e, c) ==
  LET cl == e.call[c]  n == Len(e.services) IN
  IF cl.attempt >= maxRetries
  THEN [e EXCEPT !.call[c].pc = "thrown",
                 !.call[c].out = [kind |-> "allFailed",
                                  service |-> join(serviceNames(cl.errors)),
                                  code |-> "SERVICE_ERROR",
                                  cause |-> cl.errors]]
  ELSE [e EXCEPT !.currentIndex = (e.currentIndex + 1) % n,
                 !.call[c].attempted = @ \cup {e.services[e.currentIndex + 1]},
                 !.call[c].svc = e.services[e.currentIndex + 1],
                 !.call[c].invoked = Append(@, e.services[e.currentIndex + 1]),
                 !.call[c].pc = "invoking"]

\* the for loop of execute from its head, up to the await of executeService
\* or the throw after the loop; getNextService advances the shared cursor
RECURSIVE loopHead(_, _)
loopHead(e, c) ==
  LET cl == e.call[c]  n == Len(e.services) IN
  IF cl.attempt >= maxRetries
  THEN [e EXCEPT !.call[c].pc = "thrown",
                 !.call[c].out = [kind |-> "allFailed",
                                  service |-> join(serviceNames(cl.errors)),
                                  code |-> "SERVICE_ERROR",
                                  cause |-> cl.errors]]
  ELSE LET service == e.services[e.currentIndex + 1]
           e1 == [e EXCEPT !.currentIndex = (e.currentIndex + 1) % n]
       IN IF service \in cl.attempted /\ Cardinality(cl.attempted) < n
          THEN loopHead([e1 EXCEPT !.call[c].attempt = @ + 1], c)
          ELSE [e1 EXCEPT !.call[c].attempted = @ \cup {service},
                          !.call[c].svc = service,
                          !.call[c].invoked = Append(@, service),
                          !.call[c].pc = "invoking"]

\* execute(input) is called
execute(c) ==
  /\ call[c].pc = "idle"
  /\ ExBecomes(loopHead(ExCur, c))

\* executeService resolves: return { result, service }
invokeOk(c) ==
  /\ call[c].pc = "invoking"
  /\ ExBecomes([ExCur EXCEPT
       !.call[c].pc = "returned",
       !.call[c].out = [kind |-> "ok", service |-> name(call[c].svc),
                        code |-> "none", cause |-> <<>>]])

\* executeService rejects with message m: the catch block
invokeFail(c, m) ==
  /\ call[c].pc = "invoking"
  /\ LET code == classifyError(m)
         e1 == [ExCur EXCEPT
                  !.call[c].errors =
                     Append(@, [service |-> call[c].svc, code |-> code])]
     IN IF ~isRetryable(code)
        THEN ExBecomes([e1 EXCEPT
               !.call[c].pc = "thrown",
               !.call[c].out = [kind |-> "fatal",
                                service |-> name(call[c].svc),
                                code |-> code, cause |-> <<>>]])
        ELSE IF call[c].attempt < maxRetries - 1
        THEN ExBecomes([e1 EXCEPT
               !.call[c].pc = "sleeping",
               !.call[c].sleeps =
                  Append(@, [after |-> Len(e1.call[c].errors),
                             ms |-> delay(call[c].attempt)])])
        ELSE ExBecomes(loopHead([e1 EXCEPT !.call[c].attempt = @ + 1], c))

\* the backoff sleep is over: attempt++ and the loop head
wake(c) ==
  /\ call[c].pc = "sleeping"
  /\ ExBecomes(loopHead([ExCur EXCEPT !.call[c].attempt = @ + 1], c))

ExInit ==
  /\ \E n \in 1..MaxProviders : services = [i \in 1..n |-> i]
  /\ currentIndex = 0
  /\ call = [c \in Calls |-> NewCall]

ExIdle ==
  /\ services = <<1>>
  /\ currentIndex = 0
  /\ call = [c \in Calls |-> NewCall]

\* ------------------------------------------- registry and classification
MaxRegistered == 2
Categories == {"text", "vision", "image"}

NoLibOut ==
  [op |-> "none", category |-> "none", empty |-> FALSE, kind |-> "none",
   code |-> "none", service |-> "", invoked |-> 0, thrown |-> "none",
   message |-> {}, raisedAt |-> "none", prevService |-> ""]

LibBecomes(reg, idx, out) ==
  /\ regServices' = reg /\ regCurrentIndex' = idx /\ libOut' = out
  /\ UNCHANGED <<wfVars, exVars, smVars>>

\* the keywords found in the message of the error classifyError returns:
\* of its fixed messages only "Modelo no disponible" holds one ("model");
\* the SERVICE_ERROR result keeps the message it was given
classifiedMessage(m) ==
  CASE classifyError(m) = "MODEL_UNAVAILABLE" -> {"model"}
    [] classifyError(m) = "SERVICE_ERROR" -> m
    [] OTHER -> {}

\* new XServiceExecutor(list, config): what the constructor throws, if so
constructorError(list) ==
  IF Len(list) = 0
  THEN [kind |-> "error", code |-> "INVALID_REQUEST", service |-> "config"]
  ELSE [kind |-> "ok", code |-> "none", service |-> ""]

\* registry.register(service) for a service of category cat
register(cat) ==
  /\ Len(regServices[cat]) < MaxRegistered
  /\ LibBecomes([regServices EXCEPT ![cat] = Append(@, Len(@) + 1)],
                regCurrentIndex,
                [NoLibOut EXCEPT !.op = "register", !.category = cat])

\* registry.getNext(cat)
getNext(cat) ==
  /\ cat \in Categories
  /\ LET list == regServices[cat]  index == regCurrentIndex[cat] IN
     IF Len(list) = 0
     THEN LibBecomes(regServices, regCurrentIndex,
            [NoLibOut EXCEPT !.op = "getNext", !.category = cat,
               !.empty = TRUE, !.kind = "error", !.code = "SERVICE_ERROR",
               !.service = "registry"])
     ELSE LibBecomes(regServices,
            [regCurrentIndex EXCEPT ![cat] = (index + 1) % Len(list)],
            [NoLibOut EXCEPT !.op = "getNext", !.category = cat,
               !.kind = "ok", !.service = name(list[index + 1])])

\* new XServiceExecutor(registry.getAll(cat), config)
construct(cat) ==
  /\ cat \in Categories
  /\ LET r == constructorError(regServices[cat]) IN
     LibBecomes(regServices, regCurrentIndex,
       [NoLibOut EXCEPT !.op = "construct", !.category = cat,
          !.empty = (Len(regServices[cat]) = 0), !.kind = r.kind,
          !.code = r.code, !.service = r.service])

\* executeStep for a step of category cat: the executor is built from
\* registry.getAll(cat); a constructor error rejects the step, else execute
\* invokes the provider under the cursor of the new executor
executeStep(cat) ==
  /\ cat \in Categories
  /\ LET r == constructorError(regServices[cat]) IN
     LibBecomes(regServices, regCurrentIndex,
       IF r.kind = "error"
       THEN [NoLibOut EXCEPT !.op = "executeStep", !.category = cat,
               !.empty = TRUE, !.kind = "error", !.code = r.code,
               !.service = r.service]
       ELSE [NoLibOut EXCEPT !.op = "executeStep", !.category = cat,
               !.kind = "ok", !.service = name(regServices[cat][1]),
               !.invoked = 1,
               !.prevService =
                  IF /\ libOut.op = "executeStep" /\ libOut.category = cat
                     /\ libOut.kind = "ok"
                  THEN libOut.service ELSE ""])

\* execute(input) of an executor just built on list, when the chat call of
\* the services in failing rejects with message m and every other chat
\* call resolves with a stream
RECURSIVE freshExecute(_, _, _, _, _, _, _)
freshExecute(list, failing, m, attempt, index, attempted, invoked) ==
  IF attempt >= maxRetries
  THEN [kind |-> "error", code |-> "SERVICE_ERROR", service |-> "",
        invoked |-> invoked]
  ELSE LET service == list[index + 1]
           next == (index + 1) % Len(list)
       IN IF service \in attempted /\ Cardinality(attempted) < Len(list)
          THEN freshExecute(list, failing, m, attempt + 1, next, attempted,
                            invoked)
          ELSE IF service \notin failing
          THEN [kind |-> "ok", code |-> "none", service |-> name(service),
                invoked |-> invoked + 1]
          ELSE IF ~isRetryable(classifyError(m))
          THEN [kind |-> "error", code |-> classifyError(m),
                service |-> name(service), invoked |-> invoked + 1]
          ELSE freshExecute(list, failing, m, attempt + 1, next,
                            attempted \cup {service}, invoked + 1)

\* executeStep for a text step whose first registered provider fails with
\* message m: either its chat call rejects, or chat resolves and the
\* stream it returned throws while streamToString drains it; the other
\* providers answer
textStep(m, atCall) ==
  /\ m \in Messages
  /\ LET list == regServices["text"]
         c == constructorError(list)
         r == IF c.kind = "error"
              THEN [kind |-> "error", code |-> c.code, service |-> c.service,
                    invoked |-> 0]
              ELSE freshExecute(list, IF atCall THEN {list[1]} ELSE {}, m,
                                0, 0, {}, 0)
         out == [NoLibOut EXCEPT !.op = "textStep", !.category = "text",
                   !.message = m,
                   !.raisedAt = IF atCall THEN "call" ELSE "drain"]
     IN LibBecomes(regServices, regCurrentIndex,
          IF ~atCall /\ r.kind = "ok" /\ r.invoked = 1
          THEN [out EXCEPT !.kind = "error", !.code = classifyError(m),
                           !.service = r.service, !.invoked = r.invoked]
          ELSE [out EXCEPT !.kind = r.kind, !.code = r.code,
                           !.service = r.service, !.invoked = r.invoked])

\* messages for classifyError alone: also one that says "connection
\* refused", a phrase no includes() of classifyError looks for
PlainMessages == Messages \cup {{"connection refused"}}

\* the catch of execute gets a plain Error with message m
classifyPlain(m) ==
  /\ m \in PlainMessages
  /\ LibBecomes(regServices, regCurrentIndex,
       [NoLibOut EXCEPT !.op = "classify", !.kind = "error",
          !.code = classifyError(m), !.message = m])

\* the catch of execute gets what an adapter threw: classifyError(error)
\* for an error of message m
classifyClassified(m) ==
  /\ m \in Messages
  /\ LibBecomes(regServices, regCurrentIndex,
       [NoLibOut EXCEPT !.op = "reclassify", !.kind = "error",
          !.thrown = classifyError(m),
          !.code = classifyError(classifiedMessage(m))])

LibIdle ==
  /\ regServices = [cat \in Categories |-> <<>>]
  /\ regCurrentIndex = [cat \in Categories |-> 0]
  /\ libOut = NoLibOut

\* ---------------------------------------------- state manager, directly
\* the methods of the manager getStateManager built, each called on its
\* own and run to its end before the next call
SmIdCount == 2
SmCallbackCount == 2
SmTagCount == 2

SmIds == 1..SmIdCount
SmCallbacks == 1..SmCallbackCount

\* a WorkflowStatus as far as these methods look at it; tag tells two
\* records of the same status apart
MaxClock == 3
ttlMs == 1
NoRecord == [status |-> "null", tag |-> 0, updatedAt |-> 0]
SmRecords ==
  [status : {"pending", "running", "completed"}, tag : 1..SmTagCount,
   updatedAt : 0..MaxClock]
SmStatuses == {"queued", "running", "completed", "failed"}

NoSmOut ==
  [op |-> "none", id |-> 0, kind |-> "none", before |-> NoRecord,
   invoked |-> <<>>, threw |-> {}, published |-> TRUE, cb |-> 0,
   found |-> FALSE, cleaned |-> 0, at |-> 0, again |-> FALSE]

SmBecomes(states, subscribers, out) ==
  /\ smStates' = states /\ smSubscribers' = subscribers /\ smOut' = out
  /\ UNCHANGED <<smHandles, smNow, wfVars, exVars, libVars>>

\* (mutant) the loop over the callbacks without the try/catch: the first
\* callback that throws ends it
RECURSIVE deliver_abortOnThrow(_, _)
deliver_abortOnThrow(subscribers, bad) ==
  IF subscribers = <<>> THEN [invoked |-> <<>>, raised |-> FALSE]
  ELSE IF Head(subscribers) \in bad
  THEN [invoked |-> <<Head(subscribers)>>, raised |-> TRUE]
  ELSE LET rest == deliver_abortOnThrow(Tail(subscribers), bad) IN
       [invoked |-> <<Head(subscribers)>> \o rest.invoked,
        raised |-> rest.raised]

\* for (const callback of subs) { try { callback(event) } catch { log } }:
\* the callbacks invoked, in the Set's insertion order, and whether an
\* exception left the loop; the callbacks of bad throw
RECURSIVE deliver(_, _)
deliver(subscribers, bad) ==
  IF subscribers = <<>> THEN [invoked |-> <<>>, raised |-> FALSE]
  ELSE LET rest == deliver(Tail(subscribers), bad) IN
       [invoked |-> <<Head(subscribers)>> \o rest.invoked,
        raised |-> rest.raised]

\* create(status) with status.id = id
smCreate(id, rec) ==
  /\ rec \in SmRecords /\ rec.updatedAt = smNow
  /\ SmBecomes([smStates EXCEPT ![id] = rec], smSubscribers,
               [NoSmOut EXCEPT !.op = "create", !.id = id, !.kind = "ok",
                  !.before = smStates[id]])

\* subscribe(id, callback): Set.add; the unsubscribe function is returned
smSubscribe(id, cb) ==
  /\ cb \in SmCallbacks
  /\ smSubscribers' = [smSubscribers EXCEPT ![id] =
                         IF InSeq(cb, @) THEN @ ELSE Append(@, cb)]
  /\ smHandles' = smHandles \cup {<<id, cb>>}
  /\ smOut' = [NoSmOut EXCEPT !.op = "subscribe", !.id = id, !.kind = "ok",
                 !.cb = cb]
  /\ UNCHANGED <<smStates, smNow, wfVars, exVars, libVars>>

\* (mutant) an unsubscribe that drops the id's whole Set when the callback
\* is not in it
smUnsubscribe_dropsSet(id, cb) ==
  /\ <<id, cb>> \in smHandles
  /\ SmBecomes(smStates,
               [smSubscribers EXCEPT ![id] =
                  IF InSeq(cb, @) THEN Without(@, cb) ELSE <<>>],
               [NoSmOut EXCEPT !.op = "unsubscribe", !.id = id,
                  !.kind = "ok", !.cb = cb,
                  !.found = InSeq(cb, smSubscribers[id])])

\* the function subscribe(id, callback) returned, at any later time
smUnsubscribe(id, cb) ==
  /\ <<id, cb>> \in smHandles
  /\ SmBecomes(smStates,
               [smSubscribers EXCEPT ![id] = Without(@, cb)],
               [NoSmOut EXCEPT !.op = "unsubscribe", !.id = id,
                  !.kind = "ok", !.cb = cb,
                  !.found = InSeq(cb, smSubscribers[id])])

\* update(id, { status }): nothing without a record
smUpdate(id, status) ==
  /\ status \in SmStatuses
  /\ SmBecomes(IF smStates[id] = NoRecord THEN smStates
               ELSE [smStates EXCEPT ![id].status = status,
                                     ![id].updatedAt = smNow],
               smSubscribers,
               [NoSmOut EXCEPT !.op = "update", !.id = id, !.kind = "ok"])

\* delete(id): the memory manager drops the record and the id's Set, the
\* Redis manager only the key (and the id in workflow:active)
smDelete(id) ==
  /\ id \in SmIds
  /\ SmBecomes([smStates EXCEPT ![id] = NoRecord],
               IF backend = "memory"
               THEN [smSubscribers EXCEPT ![id] = <<>>]
               ELSE smSubscribers,
               [NoSmOut EXCEPT !.op = "delete", !.id = id, !.kind = "ok",
                  !.before = smStates[id]])

\* emit(event) with event.workflowId = id; the callbacks of bad throw; with
\* the Redis manager publishOk tells whether redis.publish resolved
smEmit(id, bad, publishOk) ==
  /\ backend = "memory" => publishOk
  /\ IF ~publishOk
     THEN SmBecomes(smStates, smSubscribers,
            [NoSmOut EXCEPT !.op = "emit", !.id = id, !.kind = "error",
               !.published = FALSE])
     ELSE LET d == deliver(smSubscribers[id], bad) IN
          SmBecomes(smStates, smSubscribers,
            [NoSmOut EXCEPT !.op = "emit", !.id = id,
               !.kind = IF d.raised THEN "error" ELSE "ok",
               !.invoked = d.invoked,
               !.threw = {cb \in bad : InSeq(cb, d.invoked)}])

\* (mutant) a cleanup that also takes running records for finished
isTerminal_running(rec) == rec.status \in {"completed", "failed", "running"}

isTerminal(rec) == rec.status \in {"completed", "failed"}
isExpired(rec) == smNow - rec.updatedAt > ttlMs

\* MemoryStateManager.cleanup(): the records it deletes, with their Sets;
\* again tells that the call before was a cleanup at the same clock value
smCleanup ==
  /\ backend = "memory"
  /\ LET gone == {id \in SmIds : /\ smStates[id] # NoRecord
                                  /\ isTerminal(smStates[id])
                                  /\ isExpired(smStates[id])}
     IN  SmBecomes([id \in SmIds |->
                      IF id \in gone THEN NoRecord ELSE smStates[id]],
                   [id \in SmIds |->
                      IF id \in gone THEN <<>> ELSE smSubscribers[id]],
                   [NoSmOut EXCEPT !.op = "cleanup", !.kind = "ok",
                      !.cleaned = Cardinality(gone), !.at = smNow,
                      !.again = (smOut.op = "cleanup" /\ smOut.at = smNow)])

\* time passes
smTick ==
  /\ smNow < MaxClock
  /\ smNow' = smNow + 1
  /\ UNCHANGED <<smStates, smSubscribers, smOut, smHandles, wfVars, exVars,
                 libVars>>

SmIdle ==
  /\ smStates = [id \in SmIds |-> NoRecord]
  /\ smSubscribers = [id \in SmIds |-> <<>>]
  /\ smOut = NoSmOut
  /\ smHandles = {}
  /\ smNow = 0

\* ------------------------------------------------------- specifications
Init ==
  /\ \E l \in Scenarios, b \in {"memory", "redis"} : WfInit(l, b)
  /\ ExIdle /\ LibIdle /\ SmIdle

Next ==
  \/ \E w \in W, d \in AllDefinitions : submit(w, d)
  \/ \E t \in TaskIds : RedisCommand(t)
  \/ \E w \in W : submitAdmit(w)
  \/ \E w \in W : submitQueued(w)
  \/ \E w \in W : submitReturn(w)
  \/ \E w \in W : processQueueEmitted(w)
  \/ \E w \in W : executeWorkflowStart(w)
  \/ \E w \in W : totalTimeout(w)
  \/ \E w \in W : executeWorkflowSettled(w)
  \/ \E w \in W : executeWorkflowEmit(w)
  \/ \E w \in W : executeWorkflowExit(w)
  \/ \E w \in W, b \in BOOLEAN : skipIfResult(w, b)
  \/ \E w \in W : stepsAfterCurrentStep(w)
  \/ \E w \in W : updateStepStatus(w)
  \/ \E w \in W : stepsEmit(w)
  \/ \E w \in W : stepsAfterEmit(w)
  \/ \E w \in W : previousTextToImageInput(w)
  \/ \E w \in W : stepOk(w)
  \/ \E w \in W : stepsAfterGet(w)
  \/ \E w \in W, c \in StepErrCodes : stepFail(w, c)
  \/ \E w \in W : stepTimeout(w)
  \/ \E c \in Subscribers, w \in W : subscribe(c, w)
  \/ \E c \in Subscribers : unsubscribe(c)

Spec == Init /\ [][Next]_vars

InitExec ==
  /\ WfInit(DriverScenario, "memory")
  /\ ExInit /\ LibIdle /\ SmIdle

NextExec ==
  \/ \E c \in Calls : execute(c)
  \/ \E c \in Calls : invokeOk(c)
  \/ \E c \in Calls, m \in Messages : invokeFail(c, m)
  \/ \E c \in Calls : wake(c)

SpecExec == InitExec /\ [][NextExec]_vars

\* one workflow and the event stream of the HTTP server
\* ---- the executor under the event loop's scheduling
\* the runs in which timers fire: the queue and driver runs with the memory
\* backend, and one workflow of LiveSteps steps with the Redis backend
LiveSteps == 2
LiveScenario ==
  [wf |-> 1, steps |-> LiveSteps, subs |-> 0, skip |-> FALSE, timers |-> TRUE]

InitLive ==
  /\ \/ \E l \in {QueueScenario, DriverScenario} : WfInit(l, "memory")
     \/ WfInit(LiveScenario, "redis")
  /\ ExIdle /\ LibIdle /\ SmIdle

\* what the event loop and the state manager do on their own: a queued
\* continuation runs, a Redis command is answered, an expired timer fires.
\* Not included: a new submit, a subscriber's calls, and the return of a
\* provider call or of a skipIf.  (The emit that processQueue does not
\* await has a continuation only with the Redis backend and a queued job,
\* which these runs do not have.)
Scheduled ==
  \/ \E t \in TaskIds : RedisCommand(t)
  \/ \E w \in W : submitAdmit(w)
  \/ \E w \in W : submitQueued(w)
  \/ \E w \in W : submitReturn(w)
  \/ \E w \in W : executeWorkflowStart(w)
  \/ \E w \in W : totalTimeout(w)
  \/ \E w \in W : executeWorkflowSettled(w)
  \/ \E w \in W : executeWorkflowEmit(w)
  \/ \E w \in W : executeWorkflowExit(w)
  \/ \E w \in W : stepsAfterCurrentStep(w)
  \/ \E w \in W : updateStepStatus(w)
  \/ \E w \in W : stepsEmit(w)
  \/ \E w \in W : stepsAfterEmit(w)
  \/ \E w \in W : stepsAfterGet(w)
  \/ \E w \in W : stepTimeout(w)

\* every step of these runs
NextLive ==
  \/ Scheduled
  \/ \E w \in W, d \in AllDefinitions : submit(w, d)
  \/ \E w \in W, b \in BOOLEAN : skipIfResult(w, b)
  \/ \E w \in W : previousTextToImageInput(w)
  \/ \E w \in W : stepOk(w)
  \/ \E w \in W, c \in StepErrCodes : stepFail(w, c)
  \/ \E c \in Subscribers, w \in W : subscribe(c, w)
  \/ \E c \in Subscribers : unsubscribe(c)

SpecLive == InitLive /\ [][NextLive]_vars /\ WF_vars(Scheduled)

InitStream ==
  /\ \E l \in Scenarios, b \in {"memory", "redis"} : WfInit(l, b)
  /\ ExIdle /\ LibIdle /\ SmIdle

NextStream ==
  \/ Next
  \/ \E c \in Subscribers, w \in W : streamOpen(c, w)
  \/ \E c \in Subscribers : streamGot(c)
  \/ \E c \in Subscribers : streamClose(c)

SpecStream == InitStream /\ [][NextStream]_vars

InitLib ==
  /\ WfInit(DriverScenario, "memory")
  /\ ExIdle /\ LibIdle /\ SmIdle

NextLib ==
  \/ \E cat \in Categories : register(cat)
  \/ \E cat \in Categories : getNext(cat)
  \/ \E cat \in Categories : construct(cat)
  \/ \E cat \in Categories : executeStep(cat)
  \/ \E m \in PlainMessages : classifyPlain(m)
  \/ \E m \in Messages : classifyClassified(m)
  \/ \E m \in Messages, atCall \in BOOLEAN : textStep(m, atCall)

SpecLib == InitLib /\ [][NextLib]_vars

InitState ==
  /\ \E b \in {"memory", "redis"} : WfInit(DriverScenario, b)
  /\ ExIdle /\ LibIdle /\ SmIdle

NextState ==
  \/ \E id \in SmIds, rec \in SmRecords : smCreate(id, rec)
  \/ \E id \in SmIds, cb \in SmCallbacks : smSubscribe(id, cb)
  \/ \E id \in SmIds, cb \in SmCallbacks : smUnsubscribe(id, cb)
  \/ \E id \in SmIds, status \in {"running", "completed"} :
        smUpdate(id, status)
  \/ \E id \in SmIds : smDelete(id)
  \/ \E id \in SmIds, bad \in SUBSET SmCallbacks, publishOk \in BOOLEAN :
        smEmit(id, bad, publishOk)

SpecState == InitState /\ [][NextState]_vars

\* the memory manager with its clock and its cleanup
InitCleanup ==
  /\ WfInit(DriverScenario, "memory")
  /\ ExIdle /\ LibIdle /\ SmIdle

NextCleanup ==
  \/ \E id \in SmIds, rec \in {r \in SmRecords : r.tag = 1} :
        smCreate(id, rec)
  \/ \E id \in SmIds, status \in SmStatuses : smUpdate(id, status)
  \/ \E id \in SmIds : smSubscribe(id, 1)
  \/ smTick
  \/ smCleanup

SpecCleanup == InitCleanup /\ [][NextCleanup]_vars

\* ------------------------------------------------------------ properties
TerminalEvents == {"workflow:complete", "workflow:failed"}
HasEvent(w, type) == \E k \in 1..Len(events[w]) : events[w][k].type = type
StepsActive(w) == task[T("stp", w)].pc \notin {"idle", "returned", "thrown"}

\* C1: in every reachable state the running map holds at most
\* maxConcurrent entries
RunningBounded == Cardinality(running) <= maxConcurrent

\* C1 witness: a job waits in the queue behind a full pool after a driver
\* has already exited and a queued job has been admitted
RunningBoundedWitness ==
  /\ exits >= 1 /\ Len(queue) >= 1
  /\ Cardinality(running) = maxConcurrent

\* C2: once workflow:complete or workflow:failed has been emitted for an
\* id, no further event is emitted for it: a terminal event is the last
\* event of its workflow
NoEventAfterTerminal ==
  \A w \in W : \A k \in 1..Len(events[w]) :
    events[w][k].type \in TerminalEvents => k = Len(events[w])

\* C3: once the persisted status is completed or failed, no step changes
\* the record
TerminalRecordSticky ==
  [][\A w \in W : store[w].status \in Terminal => store'[w] = store[w]]_vars

\* C4: the persisted status only moves along the edges of the workflow
\* state machine
StatusEdges ==
  {<<"absent", "pending">>, <<"pending", "queued">>, <<"pending", "running">>,
   <<"queued", "running">>, <<"running", "completed">>,
   <<"running", "failed">>}
StatusFollowsEdges ==
  [][\A w \in W : store'[w].status # store[w].status =>
        <<store[w].status, store'[w].status>> \in StatusEdges]_vars

AnnouncedStatus(type) ==
  CASE type = "step:skipped" -> "skipped"
    [] type = "step:started" -> "running"
    [] type = "step:complete" -> "completed"
    [] type = "step:failed" -> "failed"
    [] OTHER -> "n/a"
PersistedBeforeAnnounced ==
  \A c \in Subscribers : \A j \in 1..Len(rcv[c]) :
    LET e == events[rcv[c][j].w][rcv[c][j].k] IN
    e.step >= 0 => rcv[c][j].seen = AnnouncedStatus(e.type)

\* C7: a submit against a full pool starts no driver; workflow:queued
\* carries the queue length right after the append; workflow:started of a
\* queued job is emitted only after a driver has exited
QueuedThenStarted ==
  \A w \in W :
    /\ \A k \in 1..Len(events[w]) :
         events[w][k].type = "workflow:queued" =>
           events[w][k].pos = pushLen[w]
    /\ pushLen[w] > 0 /\ InSeq(w, launched) => exits > pushExits[w]
    /\ pushLen[w] > 0 /\ HasEvent(w, "workflow:started") =>
         exits > pushExits[w]

\* C8: queued jobs are launched, and their workflow:started emitted, in
\* the order in which they were queued; the queue is what is left of that
\* order; no job waits while a slot is free
LaunchedFromQueue == SelectSeq(launched, LAMBDA w : pushLen[w] > 0)
FifoAdmission ==
  /\ Len(LaunchedFromQueue) <= Len(pushed)
  /\ LaunchedFromQueue = SubSeq(pushed, 1, Len(LaunchedFromQueue))
  /\ queue = SubSeq(pushed, Len(LaunchedFromQueue) + 1, Len(pushed))
  /\ \A w \in W : InSeq(w, launched) => HasEvent(w, "workflow:started")
  /\ Len(queue) > 0 => Cardinality(running) = maxConcurrent

\* C8 witness: two jobs were queued at the same time and both have been
\* launched
FifoAdmissionWitness ==
  /\ \E w \in W : pushLen[w] >= 2
  /\ Len(LaunchedFromQueue) >= 2

\* C9: at no instant do more than maxConcurrent workflows execute steps
StepActivityBounded ==
  Cardinality({w \in W : StepsActive(w)}) <= maxConcurrent


\* C10: in execute, a failure classified with a non-retryable code is the
\* last thing the call does: the call has thrown that code, no provider
\* was invoked after the failing one and no backoff sleep followed it
FatalStopsCall ==
  \A c \in Calls : \A j \in 1..Len(call[c].errors) :
    call[c].errors[j].code \in {"AUTH_FAILED", "INVALID_REQUEST"} =>
      /\ j = Len(call[c].errors)
      /\ call[c].pc = "thrown"
      /\ call[c].out.kind = "fatal"
      /\ call[c].out.code = call[c].errors[j].code
      /\ Len(call[c].invoked) = j
      /\ \A i \in 1..Len(call[c].sleeps) : call[c].sleeps[i].after < j

\* C10 witness: a call that had already failed over once threw AUTH_FAILED
\* while a provider of the list was still untried
FatalStopsCallWitness ==
  \E c \in Calls :
    /\ call[c].pc = "thrown" /\ call[c].out.code = "AUTH_FAILED"
    /\ Len(call[c].errors) = 2
    /\ Cardinality(call[c].attempted) < Len(services)


\* C11: within one execute call an invocation that follows a failure goes
\* to the provider the rotation designates: the first one from the cursor
\* on that the call has not invoked yet, or the one under the cursor when
\* all were invoked; so no provider is invoked twice while one is untried
Untried(c) == {i \in 1..Len(services) : services[i] \notin call[c].attempted}
RECURSIVE NextInRotation(_, _, _)
NextInRotation(c, idx, left) ==
  IF Untried(c) = {} \/ left = 0 \/ (idx + 1) \in Untried(c)
  THEN services[idx + 1]
  ELSE NextInRotation(c, (idx + 1) % Len(services), left - 1)
NextProviderInRotation ==
  [][\A c \in Calls :
       Len(call[c].invoked) >= 1
       /\ Len(call'[c].invoked) = Len(call[c].invoked) + 1 =>
         LET new == call'[c].invoked[Len(call'[c].invoked)] IN
         /\ new = NextInRotation(c, currentIndex, Len(services))
         /\ (Untried(c) # {} => new \notin call[c].attempted)]_vars

\* C11 witness: a call skipped the provider it had already invoked, which
\* another call had put under the cursor again, and invoked an untried one
NextProviderInRotationWitness ==
  \E c \in Calls :
    /\ call[c].pc = "invoking" /\ Len(call[c].invoked) = 2
    /\ call[c].attempt = 2
    /\ call[c].invoked[1] # call[c].invoked[2]


\* C12: a skip does not consume an attempt: the attempt counter counts the
\* invocations of the call, and a call whose invocations all failed
\* retryably made exactly maxRetries invocations
SkipKeepsAttempt ==
  \A c \in Calls :
    /\ call[c].pc = "invoking" => call[c].attempt = Len(call[c].invoked) - 1
    /\ call[c].out.kind = "allFailed" => Len(call[c].invoked) = maxRetries


\* C13: a call whose invocations all failed retryably until the attempts
\* ran out throws SERVICE_ERROR; its service is the ", "-joined names of
\* the providers it invoked and its cause the classified errors, both in
\* invocation order
ExhaustedError ==
  \A c \in Calls :
    call[c].out.kind = "allFailed" =>
      LET cl == call[c] IN
      /\ cl.pc = "thrown"
      /\ cl.out.code = "SERVICE_ERROR"
      /\ cl.out.service = join([j \in 1..Len(cl.invoked) |-> name(cl.invoked[j])])
      /\ cl.out.cause = cl.errors
      /\ Len(cl.errors) = Len(cl.invoked)
      /\ \A j \in 1..Len(cl.errors) :
           /\ cl.errors[j].service = cl.invoked[j]
           /\ isRetryable(cl.errors[j].code)

\* C13 witness: a call gave up after three failed invocations, the first
\* two on different providers
ExhaustedErrorWitness ==
  \E c \in Calls :
    /\ call[c].out.kind = "allFailed"
    /\ Len(call[c].invoked) = maxRetries
    /\ call[c].invoked[1] # call[c].invoked[2]


\* C16: whichever timer fires first, the workflow fails with an error of
\* code TIMEOUT attributed to the step that was current when it fired, and
\* after a step timeout the failed step record carries TIMEOUT too
TimeoutFailure ==
  \A w \in W :
    timedOut[w].kind # "none" /\ store[w].status = "failed" =>
      LET st == store[w].steps[timedOut[w].step + 1] IN
      /\ store[w].error.code = "TIMEOUT"
      /\ store[w].error.step = timedOut[w].step
      /\ timedOut[w].kind = "step" /\ st.status = "failed" =>
           st.code = "TIMEOUT"

\* C17: a step that was running when the total timeout fired never becomes
\* completed and is failed in the record once the driver has finished
TotalTimeoutFailsStep ==
  \A w \in W :
    timedOut[w].kind = "total" /\ timedOut[w].status = "running" =>
      LET st == store[w].steps[timedOut[w].step + 1] IN
      /\ st.status # "completed"
      /\ task[T("drv", w)] = Done => st.status = "failed"


\* C14: an operation on a category whose provider list is empty fails with
\* code SERVICE_ERROR and invokes no provider
EmptyListServiceError ==
  libOut.op \in {"getNext", "construct", "executeStep"} /\ libOut.empty =>
    /\ libOut.kind = "error"
    /\ libOut.code = "SERVICE_ERROR"
    /\ libOut.invoked = 0

\* C15: an error an adapter already classified keeps its code when the
\* failover executor classifies it
ClassifiedOnce ==
  libOut.op = "reclassify" =>
    /\ libOut.code = libOut.thrown
    /\ isRetryable(libOut.code) = isRetryable(libOut.thrown)


\* C18: create for an id that already has a record fails and leaves the
\* record as it was
CreateFailsOnExisting ==
  smOut.op = "create" /\ smOut.before # NoRecord =>
    /\ smOut.kind = "error"
    /\ smStates[smOut.id] = smOut.before

\* C19: when a callback throws during emit, every callback subscribed to
\* the id is still invoked, once and in subscription order, and emit
\* completes without raising
EmitBestEffort ==
  smOut.op = "emit" /\ smOut.threw # {} =>
    /\ smOut.invoked = smSubscribers[smOut.id]
    /\ smOut.kind = "ok"

\* C19 witness: the first subscriber threw and the one after it was invoked
EmitBestEffortWitness ==
  /\ smOut.op = "emit" /\ Len(smOut.invoked) >= 2
  /\ smOut.invoked[1] \in smOut.threw
  /\ smOut.invoked[2] \notin smOut.threw

\* C20: with the Redis manager an emit whose publish failed still invokes
\* every local subscriber of the id
LocalDeliveryWithoutChannel ==
  backend = "redis" /\ smOut.op = "emit" /\ ~smOut.published =>
    smOut.invoked = smSubscribers[smOut.id]


\* C21: calling the unsubscribe function again right after it was called
\* changes no subscriber set, and any call of it removes no callback other
\* than its own
UnsubscribeIdempotent ==
  [][smOut'.op = "unsubscribe" =>
       /\ \A id \in SmIds : \A cb \in SmCallbacks :
            InSeq(cb, smSubscribers[id]) /\ <<id, cb>> # <<smOut'.id, smOut'.cb>>
              => InSeq(cb, smSubscribers'[id])
       /\ (smOut.op = "unsubscribe" /\ smOut.id = smOut'.id
           /\ smOut.cb = smOut'.cb) => smSubscribers' = smSubscribers
       /\ ~smOut'.found => smSubscribers' = smSubscribers]_vars

\* C21 witness: the unsubscribe function was called when its callback was
\* no longer subscribed, while another callback is subscribed to the id
UnsubscribeIdempotentWitness ==
  /\ smOut.op = "unsubscribe" /\ ~smOut.found
  /\ smSubscribers[smOut.id] # <<>>

\* C22: an emit for an id invokes exactly the callbacks subscribed to that
\* id at the time, each once and in subscription order
EmitInvokesSubscribed ==
  smOut.op = "emit" => smOut.invoked = smSubscribers[smOut.id]

\* C23: after delete(id) the id has no record and no subscriber, with
\* either backend
DeleteDropsSubscribers ==
  smOut.op = "delete" =>
    /\ smStates[smOut.id] = NoRecord
    /\ smSubscribers[smOut.id] = <<>>

\* C24: a memory cleanup deletes exactly the records that are completed or
\* failed and older than the TTL and returns their number; a cleanup right
\* after a cleanup, at the same clock value, deletes nothing and returns 0
CleanupExact ==
  [][smOut'.op = "cleanup" /\ smNow' = smNow =>
       /\ \A id \in SmIds :
            smStates'[id] =
              IF /\ smStates[id].status \in {"completed", "failed"}
                 /\ smNow - smStates[id].updatedAt > ttlMs
              THEN NoRecord ELSE smStates[id]
       /\ smOut'.cleaned =
            Cardinality({id \in SmIds : smStates'[id] # smStates[id]})
       /\ smOut'.again => smOut'.cleaned = 0 /\ smStates' = smStates]_vars

\* C24 witness: a second cleanup in a row, at a time when a record that is
\* older than the TTL but still running is in the store and another id's
\* record has been deleted
CleanupExactWitness ==
  /\ smOut.op = "cleanup" /\ smOut.again
  /\ \E id \in SmIds : /\ smStates[id].status = "running"
                       /\ smNow - smStates[id].updatedAt > ttlMs
  /\ \E id \in SmIds : smStates[id] = NoRecord

\* C25: once submit has returned id, the record of id exists, carries that
\* id, has totalSteps equal to the number of steps of the definition, one
\* step status per step with index equal to its position, and currentStep
\* at most totalSteps
RecordShape ==
  \A w \in W :
    task[T("sub", w)] = Done =>
      /\ store[w].status # "absent"
      /\ store[w].id = w
      /\ store[w].totalSteps = Len(def[w])
      /\ Len(store[w].steps) = Len(def[w])
      /\ \A i \in 1..Len(store[w].steps) : store[w].steps[i].index = i - 1
      /\ store[w].currentStep <= store[w].totalSteps

\* C25 witness: a two-step workflow has finished its second step after
\* submit returned
RecordShapeWitness ==
  \E w \in W :
    /\ task[T("sub", w)] = Done
    /\ Len(def[w]) = 2
    /\ store[w].steps[2].status = "completed"
    /\ store[w].currentStep = 1

\* step i (from 0) of w has been announced as skipped or completed
StepDone(w, i) ==
  \E k \in 1..Len(events[w]) :
    /\ events[w][k].type \in {"step:skipped", "step:complete"}
    /\ events[w][k].step = i

\* step i (from 0) of w has been started: it is or was the current step of
\* executeSteps, its record is no longer pending or it has an event
StepBegun(w, i) ==
  \/ ctxStep[w] >= i /\ task[T("stp", w)].pc # "idle"
  \/ store[w].steps[i + 1].status # "pending"
  \/ \E k \in 1..Len(events[w]) :
       events[w][k].type \in {"step:started", "step:skipped", "step:complete",
                              "step:failed"}
       /\ events[w][k].step = i

\* C26: a step is started only after the step before it was skipped or
\* completed, and the record of a workflow never shows two running steps
StepsSequential ==
  \A w \in W :
    LET ss == store[w].steps IN
    /\ \A i \in 1..(Len(ss) - 1) : StepBegun(w, i) => StepDone(w, i - 1)
    /\ Cardinality({i \in 1..Len(ss) : ss[i].status = "running"}) <= 1

\* C27: when step i failed (step:failed{i} was emitted), step:failed comes
\* before workflow:failed, and once the driver has finished the record
\* shows step i failed with the code of the error, the workflow failed with
\* error.step = i, and every later step still pending
StepFailurePersisted ==
  \A w \in W : \A k \in 1..Len(events[w]) :
    events[w][k].type = "step:failed" =>
      LET i == events[w][k].step IN
      /\ \A m \in 1..Len(events[w]) :
           events[w][m].type = "workflow:failed" => k < m
      /\ task[T("drv", w)] = Done =>
           /\ store[w].steps[i + 1].status = "failed"
           /\ store[w].steps[i + 1].code = events[w][k].code
           /\ store[w].status = "failed"
           /\ store[w].error.step = i
           /\ \A j \in (i + 2)..Len(store[w].steps) :
                store[w].steps[j].status = "pending"

StepEdges ==
  {<<"pending", "running">>, <<"pending", "skipped">>,
   <<"running", "completed">>, <<"running", "failed">>}

\* C29: every change of a step status in the record follows
\* pending -> running | skipped, running -> completed | failed
StepStatusFollowsEdges ==
  [][\A w \in W : \A i \in 1..Len(store[w].steps) :
       Len(store'[w].steps) >= i =>
         \/ store'[w].steps[i].status = store[w].steps[i].status
         \/ <<store[w].steps[i].status, store'[w].steps[i].status>>
              \in StepEdges]_vars

\* C30: a text step over two providers whose first provider fails with a
\* retryable error of a message containing "rate" completes with the
\* second provider, wherever the first provider's error is raised
TextStepFailsOver ==
  /\ libOut.op = "textStep" /\ Len(regServices["text"]) = 2
  /\ "rate" \in libOut.message /\ isRetryable(classifyError(libOut.message))
  => libOut.kind = "ok" /\ libOut.service = name(regServices["text"][2])

StepEventTypes == {"step:started", "step:skipped", "step:complete",
                   "step:failed"}

\* C31: every step event of a workflow comes after the workflow:started
\* event of that workflow
StartedBeforeSteps ==
  \A w \in W : \A k \in 1..Len(events[w]) :
    events[w][k].type \in StepEventTypes =>
      \E m \in 1..(k - 1) : events[w][m].type = "workflow:started"

\* C31 witness: with the Redis backend a workflow that waited in the queue
\* has emitted a step event
StartedBeforeStepsWitness ==
  \E w \in W :
    /\ backend = "redis" /\ pushLen[w] > 0
    /\ \E k \in 1..Len(events[w]) : events[w][k].type \in StepEventTypes

\* C32: a step that follows a step of the same category which succeeded on
\* its first invocation with provider p_k first invokes p_(k+1 mod n)
StepsSpreadLoad ==
  LET list == regServices[libOut.category]  n == Len(list) IN
  libOut.op = "executeStep" /\ libOut.kind = "ok" /\ libOut.prevService # ""
    => \E k \in 1..n : /\ libOut.prevService = name(list[k])
                       /\ libOut.service = name(list[(k % n) + 1])

\* the code of the bucket a keyword belongs to
BucketOf(k) ==
  CASE k \in {"rate", "429"} -> "RATE_LIMITED"
    [] k \in {"auth", "401", "api key"} -> "AUTH_FAILED"
    [] k \in {"model", "not found"} -> "MODEL_UNAVAILABLE"
    [] k \in {"timeout", "timed out"} -> "TIMEOUT"
    [] k \in {"invalid", "400"} -> "INVALID_REQUEST"
    [] k \in {"network", "fetch", "connection refused"} -> "NETWORK_ERROR"
    [] OTHER -> "SERVICE_ERROR"

\* C33: the code classifyError gives a message is the code of every bucket
\* the message has a keyword of, and SERVICE_ERROR for a message without
\* keyword
ClassifiedByBucket ==
  libOut.op = "classify" =>
    /\ \A k \in libOut.message : libOut.code = BucketOf(k)
    /\ libOut.message = {} => libOut.code = "SERVICE_ERROR"

\* no task is inside a call and no command or callback is pending
Quiescent ==
  /\ redisQ = <<>> /\ microQ = <<>>
  /\ \A t \in TaskIds : task[t].pc \in {"idle", "done", "returned", "thrown"}

\* C34: with the Redis backend, whenever nothing is in flight, the set
\* workflow:active holds exactly the ids whose record exists with a status
\* that is neither completed nor failed
ActiveSetExact ==
  backend = "redis" /\ Quiescent =>
    active = {w \in W : store[w].status \notin {"absent", "completed",
                                                 "failed"}}

\* C35: when the workflow of an open stream has ended and nothing is in
\* flight any more, the stream has been given the terminal event (its
\* closing timer is set)
StreamCloses ==
  \A c \in Subscribers :
    /\ sse[c].pc = "open" /\ Quiescent
    /\ task[T("drv", sse[c].w)] = Done
    => \E j \in 1..Len(rcv[c]) :
         /\ rcv[c][j].w = sse[c].w
         /\ events[rcv[c][j].w][rcv[c][j].k].type
              \in {"workflow:complete", "workflow:failed"}


\* the transformer of step i of w threw for want of a previous result
PreviousRaised(w, i) ==
  \E k \in 1..Len(events[w]) :
    /\ events[w][k].type = "step:failed"
    /\ events[w][k].step = i
    /\ events[w][k].code = NoPreviousResult

\* step i of w has been announced as skipped
StepSkipped(w, i) ==
  \E k \in 1..Len(events[w]) :
    events[w][k].type = "step:skipped" /\ events[w][k].step = i

\* the input of the running step of w was built by a previous* transformer
BuiltFromPrevious(w) ==
  task[T("stp", w)].pc = "step" /\ task[T("stp", w)].loc.k > 0

\* C36 without its last clause: a previous* transformer gets the result
\* that step i-1 of the same execution stored, and it throws exactly when
\* i = 0 or step i-1 was skipped
PreviousResultExact ==
  \A w \in W :
    /\ BuiltFromPrevious(w) =>
         /\ task[T("stp", w)].loc.k = ctxStep[w]
         /\ ctxStep[w] - 1 \in results[w]
         /\ \E k \in 1..Len(events[w]) :
              /\ events[w][k].type = "step:complete"
              /\ events[w][k].step = ctxStep[w] - 1
    /\ \A i \in 0..(Len(def[w]) - 1) :
         PreviousRaised(w, i) =>
           i = 0 \/ (StepSkipped(w, i - 1) /\ i - 1 \notin results[w])

\* C36: the transformer of step i sees exactly the result of step i-1 of
\* the same execution, undefined when i = 0 or step i-1 was skipped; when
\* it is undefined the transformer throws and, once nothing is in flight
\* any more, the step and the workflow are recorded as failed
PreviousResultOrFailed ==
  /\ PreviousResultExact
  /\ \A w \in W : \A i \in 0..(Len(def[w]) - 1) :
       (PreviousRaised(w, i) /\ Quiescent /\ task[T("drv", w)] = Done) =>
         /\ store[w].status = "failed"
         /\ store[w].steps[i + 1].status = "failed"

\* what the execution of the workflows consists of: everything but the
\* subscriber tables and what the callbacks were given
ExecView(s) ==
  <<s.nextId, s.def, s.store, s.active, s.queue, s.running, s.task,
    s.ctxStep, s.results, s.events, s.redisQ, s.microQ, s.launched>>

EventCount(w, types) ==
  Cardinality({k \in 1..Len(events[w]) : events[w][k].type \in types})

\* how many times startExecution was called for w
LaunchCount(w) ==
  Cardinality({k \in 1..Len(launched) : launched[k] = w})

EveryWorkflowEnds ==
  /\ \A w \in 1..QueueWorkflows :
       (task[T("sub", w)].pc = "create") ~> (store[w].status \in Terminal)
  /\ <>[](\A w \in W :
            nextId >= w =>
              /\ InSeq(w, launched)
              /\ task[T("drv", w)] = Done
              /\ w \notin running /\ ~InSeq(w, queue))

\* a workflow that had been queued has ended, while the provider call of
\* the workflow before it, cut off by the total timeout, has not returned
EveryWorkflowEndsWitness ==
  \E v, w \in W :
    /\ pushLen[w] > 0
    /\ task[T("drv", w)] = Done /\ store[w].status \in Terminal
    /\ timedOut[v].kind = "total"
    /\ task[T("stp", v)].pc = "step"
    /\ task[T("drv", v)] = Done

\* C40: on the shared executor, a call that fails with the all-failed
\* SERVICE_ERROR (maxRetries is at least the number of providers) has
\* invoked every provider at least once
AllFailedTriedAll ==
  \A c \in Calls :
    call[c].out.kind = "allFailed" =>
      {call[c].invoked[j] : j \in 1..Len(call[c].invoked)}
        = {services[j] : j \in 1..Len(services)}
====
